---- MODULE Spec2Model ----
(***************************************************************************)
(* A model of node-gir-typedef, the generator of TypeScript declarations   *)
(* from GObject-Introspection (GIR) documents.                             *)
(*                                                                         *)
(* JavaScript strings are modelled as sequences of one-character strings,  *)
(* so that includes, indexOf, substring and replace are computed and not   *)
(* assumed.  The text built by buildClasses is modelled as the sequence of *)
(* the blocks appended to it.                                              *)
(***************************************************************************)
EXTENDS Integers, Sequences, FiniteSets, TLC

VARIABLES
    \* buildClasses (GIRParser)
    classes,         \* the registry passed to buildClasses
    classesText,     \* the blocks appended to classesText, in order
    imports,         \* the Set imports
    parents,         \* the function-level variable parents
    localParents,    \* the Set localParents
    writtenClasses,  \* the Set writtenClasses
    pc,              \* position in buildClasses
    k,               \* index of klass in the for loop of the scan
    scans,           \* number of full scans completed (saturates at MaxScans)
    progress,        \* whether the current scan has added to writtenClasses
    \* generateGIRFull
    girFiles,        \* the files found by the globs of girIterator
    fileIdx,         \* position of the iterator among the yielded files
    gpc,             \* position in generateGIRFull
    consoleLog,      \* paths logged by parseGIR ("Parsing ...")
    consoleError,    \* paths whose error was caught and logged
    outFiles,        \* names handed to writeFile
    \* calls of the pure functions
    call,            \* the call: [fn, arg]
    ret              \* its result, or Pending

bcVars == <<classes, classesText, imports, parents, localParents,
            writtenClasses, pc, k, scans, progress>>
girVars == <<girFiles, fileIdx, gpc, consoleLog, consoleError, outFiles>>
fnVars == <<call, ret>>
vars == <<bcVars, girVars, fnVars>>

(***************************************************************************)
(* Bounds of the model.                                                    *)
(***************************************************************************)
MaxClasses == 2
MaxParents == 2
MaxScans == 2
MaxFiles == 2
MaxWordLen == 3
MaxParams == 2
MaxDepth == 2
MaxMembers == 2
MaxElements == 2

(***************************************************************************)
(* Strings.                                                                *)
(***************************************************************************)
\* String.prototype.includes for a one-character pattern
Includes(s, c) == \E i \in 1..Len(s) : s[i] = c

\* String.prototype.indexOf for a one-character pattern (0-based, -1 if absent)
IndexOf(s, c) ==
    IF Includes(s, c)
    THEN (CHOOSE i \in 1..Len(s) : s[i] = c /\ \A j \in 1..(i - 1) : s[j] # c) - 1
    ELSE -1

\* String.prototype.substring(from, to) for 0 <= from <= to <= length
Substring(s, from, to) == SubSeq(s, from + 1, to)

\* whether pat occurs in s at the 1-based position i
OccursAt(s, pat, i) ==
    /\ i + Len(pat) - 1 <= Len(s)
    /\ SubSeq(s, i, i + Len(pat) - 1) = pat

\* String.prototype.replace(pat, rep) with a string pattern: the first
\* occurrence only, wherever it stands
Replace(s, pat, rep) ==
    IF \E i \in 1..Len(s) : OccursAt(s, pat, i)
    THEN LET i == CHOOSE i \in 1..Len(s) :
                      /\ OccursAt(s, pat, i)
                      /\ \A j \in 1..(i - 1) : ~OccursAt(s, pat, j)
         IN SubSeq(s, 1, i - 1) \o rep \o SubSeq(s, i + Len(pat), Len(s))
    ELSE s

(***************************************************************************)
(* Values.                                                                 *)
(***************************************************************************)
\* a nullable array: null, or an array with the given items
Null == [isNull |-> TRUE, items |-> <<>>]
Arr(items) == [isNull |-> FALSE, items |-> items]

\* names of the classes of a registry, by position
LocalA == <<"A">>
LocalB == <<"B">>
LocalC == <<"C">>
LocalD == <<"D">>
ClassNames == <<LocalA, LocalB, LocalC, LocalD>>

\* parents in a foreign namespace
GtkWidget == <<"G", "t", "k", ".", "W", "i", "d", "g", "e", "t">>
FooBar == <<"F", "o", "o", ".", "B", "a", "r">>

\* the names a parent attribute or an implements child may hold
ParentPool == {LocalA, LocalB, GtkWidget, FooBar}

\* the parents lists of extractClass: the parent attribute, then the
\* implements children
ParentLists ==
    UNION { { s \in [1..n -> ParentPool] :
                \A i, j \in 1..n : i # j => s[i] # s[j] } : n \in 0..MaxParents }

\* the record returned by extractClass
GIRClass(name, parentList) ==
    [name |-> name, parents |-> Arr(parentList), contents |-> <<"class", name>>]

\* the record returned by extractEnum (parents: null)
GIREnum(name) ==
    [name |-> name, parents |-> Null, contents |-> <<"enum", name>>]

\* the parents fields of the records: an array for a class, null for an enum
ParentsFields == { Arr(pl) : pl \in ParentLists } \cup { Null }

\* the record extractNamespace pushes for the i-th class or enum element
RecordAt(i, parentsField) ==
    IF parentsField.isNull
    THEN GIREnum(ClassNames[i])
    ELSE GIRClass(ClassNames[i], parentsField.items)

\* the registry extractNamespace hands to buildClasses, from the parents
\* fields of its records; the i-th record is named ClassNames[i]
Registry(parentsFields) ==
    [i \in DOMAIN parentsFields |-> RecordAt(i, parentsFields[i])]

(***************************************************************************)
(* buildClasses.                                                           *)
(***************************************************************************)
\* classParent => !classParent.includes(".")
IsLocal(classParent) == ~Includes(classParent, ".")

\* parentClass.substring(0, parentClass.indexOf("."))
NamespaceOf(parentClass) == Substring(parentClass, 0, IndexOf(parentClass, "."))

\* new Set(classes.map(klass => klass.name))
allClasses == { classes[i].name : i \in DOMAIN classes }

\* the two Set objects compared by the loop guard, named by where they are
\* allocated
writtenClassesRef == "new Set at line 330"
allClassesRef == "new Set at line 331"

\* a !== b on two objects: a comparison of identities, not of contents
StrictNotEqual(refA, refB) == refA # refB

\* the items of a stale or current parents array that hold a "."
ImportsOf(parentList) ==
    { NamespaceOf(parentList[i]) :
        i \in { j \in DOMAIN parentList : Includes(parentList[j], ".") } }

\* if (writtenClasses.has(klass.name)) skip = true
NeverWritten(klass, written) == FALSE
AlreadyWritten(klass, written) == klass.name \in written

\* the for loop over klass.parents, from its j-th iteration, on the state
\* st = [skip, text, written, imports]; stale is the function-level parents
RECURSIVE ParentsLoop(_, _, _, _)
ParentsLoop(klass, stale, j, st) ==
    IF j > Len(klass.parents.items)
    THEN st
    ELSE LET parent == klass.parents.items[j]
             skip1 == st.skip \/ (IsLocal(parent) /\ parent \notin st.written)
             skip2 == skip1 \/ AlreadyWritten(klass, st.written)
         IN IF skip2
            THEN ParentsLoop(klass, stale, j + 1, [st EXCEPT !.skip = TRUE])
            ELSE ParentsLoop(klass, stale, j + 1,
                     [skip |-> FALSE,
                      text |-> Append(st.text, klass.contents),
                      written |-> st.written \cup {klass.name},
                      imports |-> st.imports \cup ImportsOf(stale)])

\* the first loop: parents ends as the parents of the last class ([] for a
\* null parents field), localParents as the union of the local parents
LastParents ==
    IF classes = <<>> THEN <<>>
    ELSE IF classes[Len(classes)].parents.isNull THEN <<>>
    ELSE classes[Len(classes)].parents.items

AllLocalParents ==
    UNION { { classes[i].parents.items[j] :
                j \in { x \in DOMAIN classes[i].parents.items :
                          IsLocal(classes[i].parents.items[x]) } } :
            i \in DOMAIN classes }

Prologue ==
    /\ pc = "start"
    /\ classesText' = <<>>
    /\ imports' = {}
    /\ writtenClasses' = {}
    /\ parents' = LastParents
    /\ localParents' = AllLocalParents
    /\ pc' = "while"
    /\ UNCHANGED <<classes, k, scans, progress, girVars, fnVars>>

Saturate(n) == IF n < MaxScans THEN n + 1 ELSE n

\* while (writtenClasses !== allClasses): enter a scan, or leave the loop
WhileGuard ==
    /\ pc = "while"
    /\ IF StrictNotEqual(writtenClassesRef, allClassesRef)
       THEN /\ pc' = "for"
            /\ k' = 1
       ELSE /\ pc' = "return"
            /\ UNCHANGED k
    /\ progress' = FALSE
    /\ UNCHANGED <<classes, classesText, imports, parents, localParents,
                   writtenClasses, scans, girVars, fnVars>>

\* for (let klass of classes): the iteration on classes[k], or the end of
\* the scan when the registry is exhausted
ForKlass ==
    /\ pc = "for"
    /\ IF k > Len(classes)
       THEN /\ pc' = "while"
            /\ scans' = Saturate(scans)
            /\ UNCHANGED <<classesText, imports, writtenClasses, k, progress>>
       ELSE LET klass == classes[k]
            IN IF klass.parents.isNull
               THEN \* for (let parent of null) raises a TypeError
                    /\ pc' = "raised"
                    /\ UNCHANGED <<classesText, imports, writtenClasses, k,
                                   scans, progress>>
               ELSE LET st == ParentsLoop(klass, parents, 1,
                                  [skip |-> FALSE, text |-> classesText,
                                   written |-> writtenClasses,
                                   imports |-> imports])
                    IN /\ classesText' = st.text
                       /\ writtenClasses' = st.written
                       /\ imports' = st.imports
                       /\ progress' = (progress \/ st.written # writtenClasses)
                       /\ k' = k + 1
                       /\ UNCHANGED <<pc, scans>>
    /\ UNCHANGED <<classes, parents, localParents, girVars, fnVars>>

(***************************************************************************)
(* Specification of buildClasses alone, on every registry of the bounds.   *)
(***************************************************************************)
Pending == [t |-> "pending", v |-> <<>>]
NoCall == [fn |-> "none", arg |-> <<>>]

GirIdle ==
    /\ girFiles = <<>>
    /\ fileIdx = 1
    /\ gpc = "none"
    /\ consoleLog = <<>>
    /\ consoleError = <<>>
    /\ outFiles = <<>>

FnIdle ==
    /\ call = NoCall
    /\ ret = Pending

Init ==
    /\ \E n \in 0..MaxClasses : \E pfs \in [1..n -> ParentsFields] :
           classes = Registry(pfs)
    /\ classesText = <<>>
    /\ imports = {}
    /\ parents = <<>>
    /\ localParents = {}
    /\ writtenClasses = {}
    /\ pc = "start"
    /\ k = 1
    /\ scans = 0
    /\ progress = FALSE
    /\ GirIdle
    /\ FnIdle

Next ==
    \/ Prologue
    \/ WhileGuard
    \/ ForKlass

Spec == Init /\ [][Next]_vars

\* the loop is a sequential program: it always takes its next step
FairSpec == Spec /\ WF_vars(Next)

(***************************************************************************)
(* Shapes of a registry.                                                   *)
(***************************************************************************)
\* the un-namespaced parents of a record (none for a null parents field)
LocalParentsOf(c) ==
    { c.parents.items[j] :
        j \in { x \in DOMAIN c.parents.items : IsLocal(c.parents.items[x]) } }

NoEnum == \A i \in DOMAIN classes : ~classes[i].parents.isNull

AllDefined == \A i \in DOMAIN classes : LocalParentsOf(classes[i]) \subseteq allClasses

RECURSIVE Ancestors(_, _)
Ancestors(name, depth) ==
    IF depth = 0 THEN {}
    ELSE LET direct == UNION { LocalParentsOf(classes[i]) :
                                 i \in { x \in DOMAIN classes : classes[x].name = name } }
         IN direct \cup UNION { Ancestors(p, depth - 1) : p \in direct }

Acyclic == \A name \in allClasses : name \notin Ancestors(name, Len(classes))

\* positions of the block of record c in the output text
BlocksOf(c) == { p \in DOMAIN classesText : classesText[p] = c.contents }

\* a full scan has ended
ScanEnded == pc = "while" /\ scans >= 1

(***************************************************************************)
(* Claims on buildClasses.                                                 *)
(***************************************************************************)
\* C1: on every registry of classes (empty, cyclic, with an undefined local
\* parent, ...) buildClasses terminates: the scan loop is left and the
\* function returns.
C1_Terminates == NoEnum => <>(pc = "return")

\* C2: on a registry with no cycle and no undefined local parent, the block
\* of a class stands in the output strictly after the blocks of all its
\* local parents, wherever the local parent stands in its parents list.
C2_ParentsFirst ==
    (Acyclic /\ AllDefined) =>
        \A i \in DOMAIN classes : \A p \in BlocksOf(classes[i]) :
            \A lp \in LocalParentsOf(classes[i]) :
                \E j \in DOMAIN classes :
                    /\ classes[j].name = lp
                    /\ \E q \in BlocksOf(classes[j]) : q < p

\* C3: on a registry with no cycle and no undefined local parent, a class
\* with an empty parents list is written during the first full scan, and at
\* return every class is written.
C3_AllWritten ==
    (NoEnum /\ Acyclic /\ AllDefined) =>
        /\ ScanEnded =>
               \A i \in DOMAIN classes :
                   classes[i].parents.items = <<>> => classes[i].name \in writtenClasses
        /\ pc = "return" => writtenClasses = allClasses

\* the namespaces of the namespaced parents of all the classes
ExpectedImports == UNION { ImportsOf(classes[i].parents.items) : i \in DOMAIN classes }

\* C4: once every class is written, the import set is exactly the set of the
\* namespaces of the namespaced parents of all the classes.
C4_ImportsExact ==
    (NoEnum /\ (pc = "return" \/ (ScanEnded /\ writtenClasses = allClasses)))
        => imports = ExpectedImports

\* C5: a class with parents, all of them namespaced, is written during the
\* first full scan.
C5_ForeignOnlyFirstScan ==
    (ScanEnded \/ pc \in {"return", "raised"}) =>
        \A i \in DOMAIN classes :
            (/\ ~classes[i].parents.isNull
             /\ classes[i].parents.items # <<>>
             /\ LocalParentsOf(classes[i]) = {})
                => classes[i].name \in writtenClasses

\* every record of the registry has exactly one block in the output
EveryBlockOnce == \A i \in DOMAIN classes : Cardinality(BlocksOf(classes[i])) = 1

\* a full scan has ended that wrote no class while unwritten classes remain
Stalled == ScanEnded /\ ~progress /\ writtenClasses # allClasses

\* C6: when a full scan writes no class while unwritten classes remain, the
\* emitter stops scanning and still appends every unwritten class once.
C6_StallStops ==
    [][(NoEnum /\ Stalled) => (pc' = "return" /\ EveryBlockOnce')]_vars

\* C7: a registry that holds enum records is processed without an error
\* being raised, and after the first full scan each enum block is in the
\* output exactly once.
C7_EnumsProcessed ==
    /\ pc # "raised"
    /\ ScanEnded =>
           \A i \in DOMAIN classes :
               classes[i].parents.isNull => Cardinality(BlocksOf(classes[i])) = 1

(***************************************************************************)
(* generateGIRFull, parseGIR and girIterator.                              *)
(***************************************************************************)
\* String.prototype.lastIndexOf for a one-character pattern (0-based, -1 if
\* absent)
LastIndexOf(s, c) ==
    IF Includes(s, c)
    THEN (CHOOSE i \in 1..Len(s) :
              s[i] = c /\ \A j \in (i + 1)..Len(s) : s[j] # c) - 1
    ELSE -1

\* what parseGIR meets in a file: readFile rejects; parseXmlString raises;
\* the document has no root; the root has no namespace element; an
\* extractor raises before buildClasses is called; or extractNamespace
\* reaches buildClasses with a registry
DocUnreadable == [kind |-> "unreadable", registry |-> <<>>]
DocMalformed == [kind |-> "malformed", registry |-> <<>>]
DocNoRoot == [kind |-> "noRoot", registry |-> <<>>]
DocNoNamespace == [kind |-> "noNamespace", registry |-> <<>>]
DocExtractError == [kind |-> "extractError", registry |-> <<>>]
DocNamespace(registry) == [kind |-> "namespace", registry |-> registry]

\* registries of the documents of the driver
SampleRegistries ==
    { <<>>,
      <<GIRClass(LocalA, <<>>)>>,
      <<GIRClass(LocalA, <<GtkWidget>>)>>,
      <<GIRClass(LocalA, <<LocalB>>)>>,
      <<GIREnum(LocalA)>> }

Documents ==
    {DocUnreadable, DocMalformed, DocNoRoot, DocNoNamespace, DocExtractError}
        \cup { DocNamespace(r) : r \in SampleRegistries }

\* base names of the files the globs may find, by position: with a version
\* suffix, or without any dash
FileStems == <<<<"G", "t", "k">>, <<"A", "t", "k">>, <<"G", "i", "o">>, <<"G", "d", "k">>>>
BaseNamesAt(i) ==
    <<FileStems[i] \o <<"-", "3">>, FileStems[i] \o <<"-", "2", "-", "0">>, FileStems[i]>>

\* the files found by the globs, from a choice of base name and document
\* for each
FileChoices == [base : 1..3, doc : Documents]
GirFiles(choices) ==
    [i \in DOMAIN choices |->
        [base |-> BaseNamesAt(i)[choices[i].base], doc |-> choices[i].doc]]

\* girIterator: the files whose base name holds a dash, each with the module
\* name before its last dash
HasDash(f) == LastIndexOf(f.base, "-") # -1
GIFile(f) ==
    [name |-> Substring(f.base, 0, LastIndexOf(f.base, "-")), path |-> f.base,
     doc |-> f.doc]

RECURSIVE girIterator(_)
girIterator(files) ==
    IF files = <<>> THEN <<>>
    ELSE IF HasDash(Head(files))
         THEN <<GIFile(Head(files))>> \o girIterator(Tail(files))
         ELSE girIterator(Tail(files))

Yielded == girIterator(girFiles)

\* the loop of generateGIRFull on value.value: parseGIR up to the call of
\* buildClasses, or up to the error caught by the driver
ParseGIR ==
    /\ gpc = "loop"
    /\ IF fileIdx > Len(Yielded)
       THEN /\ gpc' = "done"
            /\ UNCHANGED <<bcVars, fileIdx, consoleLog, consoleError>>
       ELSE LET file == Yielded[fileIdx]
            IN /\ consoleLog' = Append(consoleLog, file.path)
               /\ IF file.doc.kind = "namespace"
                  THEN /\ classes' = file.doc.registry
                       /\ pc' = "start"
                       /\ gpc' = "parsing"
                       /\ UNCHANGED <<classesText, imports, parents, localParents,
                                      writtenClasses, k, scans, progress,
                                      fileIdx, consoleError>>
                  ELSE /\ consoleError' = Append(consoleError, file.path)
                       /\ fileIdx' = fileIdx + 1
                       /\ UNCHANGED <<bcVars, gpc>>
    /\ UNCHANGED <<girFiles, outFiles, fnVars>>

\* buildClasses has returned to extractNamespace (parseGIR resolves and
\* writeFile is called) or has raised (the catch logs the error); then
\* iterator.next()
Settle ==
    /\ gpc = "parsing"
    /\ pc \in {"return", "raised"}
    /\ IF pc = "return"
       THEN /\ outFiles' = Append(outFiles, Yielded[fileIdx].name)
            /\ UNCHANGED consoleError
       ELSE /\ consoleError' = Append(consoleError, Yielded[fileIdx].path)
            /\ UNCHANGED outFiles
    /\ fileIdx' = fileIdx + 1
    /\ gpc' = "loop"
    /\ pc' = "idle"
    /\ scans' = 0
    /\ UNCHANGED <<classes, classesText, imports, parents, localParents,
                   writtenClasses, k, progress, girFiles, consoleLog, fnVars>>

InitGIR ==
    /\ \E n \in 0..MaxFiles : \E choices \in [1..n -> FileChoices] :
           girFiles = GirFiles(choices)
    /\ fileIdx = 1
    /\ gpc = "loop"
    /\ consoleLog = <<>>
    /\ consoleError = <<>>
    /\ outFiles = <<>>
    /\ classes = <<>>
    /\ classesText = <<>>
    /\ imports = {}
    /\ parents = <<>>
    /\ localParents = {}
    /\ writtenClasses = {}
    /\ pc = "idle"
    /\ k = 1
    /\ scans = 0
    /\ progress = FALSE
    /\ FnIdle

NextGIR ==
    \/ ParseGIR
    \/ Prologue
    \/ WhileGuard
    \/ ForKlass
    \/ Settle

SpecGIR == InitGIR /\ [][NextGIR]_vars

\* generateGIRFull is one sequential async function: it always takes its
\* next step
FairSpecGIR == SpecGIR /\ WF_vars(NextGIR)

RECURSIVE PathsOf(_)
PathsOf(files) ==
    IF files = <<>> THEN <<>> ELSE <<Head(files).path>> \o PathsOf(Tail(files))

\* C8: parseGIR is attempted once for every file yielded by girIterator, in
\* iteration order, whatever happens to the files before it: eventually
\* the paths logged by parseGIR are the yielded paths, each once, in order.
C8_EveryFileAttempted == <>(consoleLog = PathsOf(Yielded))

(***************************************************************************)
(* JavaScript values returned by the pure functions.                       *)
(***************************************************************************)
JsString(s) == [t |-> "string", v |-> s]
Undefined == [t |-> "undefined", v |-> <<>>]
\* a member inherited from Object.prototype
Inherited(key) == [t |-> "function", v |-> key]

(***************************************************************************)
(* getTSType.                                                              *)
(***************************************************************************)
T_bool == <<"b", "o", "o", "l">>
T_number == <<"n", "u", "m", "b", "e", "r">>
T_string == <<"s", "t", "r", "i", "n", "g">>
T_null == <<"n", "u", "l", "l">>
T_any == <<"a", "n", "y">>

TYPEMAP ==
    (<<"g", "b", "o", "o", "l", "e", "a", "n">> :> T_bool)
        @@ (<<"g", "i", "n", "t">> :> T_number)
        @@ (<<"g", "u", "i", "n", "t">> :> T_number)
        @@ (<<"g", "i", "n", "t", "6", "4">> :> T_number)
        @@ (<<"g", "u", "i", "n", "t", "6", "4">> :> T_number)
        @@ (<<"n", "o", "n", "e">> :> T_null)
        @@ (<<"g", "c", "h", "a", "r">> :> T_string)
        @@ (<<"g", "u", "c", "h", "a", "r">> :> T_string)
        @@ (<<"g", "c", "h", "a", "r", "*">> :> T_string)
        @@ (<<"g", "u", "c", "h", "a", "r", "*">> :> T_string)
        @@ (<<"g", "l", "o", "n", "g">> :> T_number)
        @@ (<<"g", "u", "l", "o", "n", "g">> :> T_number)
        @@ (<<"g", "l", "o", "n", "g", "6", "4">> :> T_number)
        @@ (<<"g", "u", "l", "o", "n", "g", "6", "4">> :> T_number)
        @@ (<<"g", "f", "l", "o", "a", "t">> :> T_number)
        @@ (<<"g", "d", "o", "u", "b", "l", "e">> :> T_number)
        @@ (<<"s", "t", "r", "i", "n", "g">> :> T_string)
        @@ (<<"G", "S", "t", "r", "i", "n", "g">> :> T_string)
        @@ (<<"u", "t", "f", "8">> :> T_string)

\* members every object literal inherits from Object.prototype
ObjectPrototypeKeys ==
    { <<"t", "o", "S", "t", "r", "i", "n", "g">>,
      <<"c", "o", "n", "s", "t", "r", "u", "c", "t", "o", "r">> }

\* TYPEMAP[typename]: the own property, else the inherited member, else
\* undefined; a property read on an object never raises
PropertyGet(key) ==
    IF key \in DOMAIN TYPEMAP THEN JsString(TYPEMAP[key])
    ELSE IF key \in ObjectPrototypeKeys THEN Inherited(key)
    ELSE Undefined

ConstQualifier == <<"c", "o", "n", "s", "t", " ">>

\* the try block always completes, so the catch (return "any") never runs
getTSType(typename) == PropertyGet(Replace(typename, ConstQualifier, <<>>))

(***************************************************************************)
(* isNameValid and the name rendered by buildFunctionString.               *)
(***************************************************************************)
Letters ==
    { "a", "b", "c", "d", "e", "f", "g", "h", "i", "j", "k", "l", "m", "n",
      "o", "p", "q", "r", "s", "t", "u", "v", "w", "x", "y", "z", "A", "B",
      "C", "D", "E", "F", "G", "H", "I", "J", "K", "L", "M", "N", "O", "P",
      "Q", "R", "S", "T", "U", "V", "W", "X", "Y", "Z" }
Digits == { "0", "1", "2", "3", "4", "5", "6", "7", "8", "9" }
IdentifierStart == Letters \cup { "_", "$" }
IdentifierPart == IdentifierStart \cup Digits

\* words that no let declaration may bind
ReservedWords ==
    { <<"b", "r", "e", "a", "k">>, <<"c", "a", "s", "e">>,
      <<"c", "a", "t", "c", "h">>, <<"c", "l", "a", "s", "s">>,
      <<"c", "o", "n", "s", "t">>,
      <<"c", "o", "n", "t", "i", "n", "u", "e">>,
      <<"d", "e", "b", "u", "g", "g", "e", "r">>,
      <<"d", "e", "f", "a", "u", "l", "t">>,
      <<"d", "e", "l", "e", "t", "e">>, <<"d", "o">>,
      <<"e", "l", "s", "e">>, <<"e", "n", "u", "m">>,
      <<"e", "x", "p", "o", "r", "t">>,
      <<"e", "x", "t", "e", "n", "d", "s">>, <<"f", "a", "l", "s", "e">>,
      <<"f", "i", "n", "a", "l", "l", "y">>, <<"f", "o", "r">>,
      <<"f", "u", "n", "c", "t", "i", "o", "n">>, <<"i", "f">>,
      <<"i", "m", "p", "o", "r", "t">>, <<"i", "n">>,
      <<"i", "n", "s", "t", "a", "n", "c", "e", "o", "f">>,
      <<"l", "e", "t">>, <<"n", "e", "w">>, <<"n", "u", "l", "l">>,
      <<"r", "e", "t", "u", "r", "n">>, <<"s", "u", "p", "e", "r">>,
      <<"s", "w", "i", "t", "c", "h">>, <<"t", "h", "i", "s">>,
      <<"t", "h", "r", "o", "w">>, <<"t", "r", "u", "e">>,
      <<"t", "r", "y">>, <<"t", "y", "p", "e", "o", "f">>,
      <<"v", "a", "r">>, <<"v", "o", "i", "d">>,
      <<"w", "h", "i", "l", "e">>, <<"w", "i", "t", "h">> }

IsIdentifierName(word) ==
    /\ word # <<>>
    /\ word[1] \in IdentifierStart
    /\ \A i \in 2..Len(word) : word[i] \in IdentifierPart

\* eval(`let ${word} = 1`) completes, for a word of letters, digits, "_",
\* "$", "-" and "."
EvalLetCompletes(word) == IsIdentifierName(word) /\ word \notin ReservedWords

\* try { eval(...); return true } catch { return false }
isNameValid(word) == EvalLetCompletes(word)

\* buildFunctionString: if (isNameValid(name)) name = "_" + name
RenderedName(name) == IF isNameValid(name) THEN <<"_">> \o name ELSE name

(***************************************************************************)
(* getParameters, getParameterType and getParameterDoc.                    *)
(***************************************************************************)
Whitespace == { " ", "\n", "\t" }

\* String.prototype.trim
RECURSIVE TrimLeft(_)
TrimLeft(s) ==
    IF s # <<>> /\ Head(s) \in Whitespace THEN TrimLeft(Tail(s)) ELSE s

RECURSIVE TrimRight(_)
TrimRight(s) ==
    IF s # <<>> /\ s[Len(s)] \in Whitespace
    THEN TrimRight(SubSeq(s, 1, Len(s) - 1))
    ELSE s

Trim(s) == TrimRight(TrimLeft(s))

\* an attribute or a child that may be absent
Absent == [has |-> FALSE, v |-> <<>>]
Present(v) == [has |-> TRUE, v |-> v]

\* a child of a parameters element: its tag, its name attribute, its type
\* child (absent, with a name attribute, or without one) and its doc child
ParamNode(tag, name, type, doc) == [tag |-> tag, name |-> name, type |-> type, doc |-> doc]
NoTypeChild == [child |-> "absent", name |-> <<>>]
TypeChild(name) == [child |-> "named", name |-> name]
UnnamedTypeChild == [child |-> "unnamed", name |-> <<>>]

Ellipsis == <<".", ".", ".">>
EllipsisOther == <<".", ".", ".", "o", "t", "h", "e", "r">>

\* getParameterType: "" without a type child; node.attr("name").value()
\* raises on a type child without a name attribute
ParameterTypeRaises(node) == node.type.child = "unnamed"
getParameterType(node) ==
    IF node.type.child = "absent" THEN JsString(<<>>) ELSE getTSType(node.type.name)

\* getParameterDoc: undefined without a doc child
getParameterDoc(node) ==
    IF node.doc.has
    THEN JsString(Trim(Replace(Replace(node.doc.v, <<"\\", "x">>, <<"x">>),
                              <<"\n">>, <<" ">>)))
    ELSE Undefined

\* the body of the try block for one node: [ok, entry]; ok is FALSE when a
\* TypeError is raised (no name attribute, type child without a name,
\* .replace on an undefined doc)
ExtractParam(node) ==
    LET nameRaises == node.tag # "instance-parameter" /\ ~node.name.has
        paramName == IF node.tag # "instance-parameter" THEN node.name.v ELSE <<>>
        rawDoc == getParameterDoc(node)
        docRaises == rawDoc = Undefined
        doc == Trim(Replace(rawDoc.v, <<"\n">>, <<" ">>))
        prefixed == IF isNameValid(paramName) THEN <<"_">> \o paramName ELSE paramName
        resolved == IF prefixed = Ellipsis THEN EllipsisOther ELSE prefixed
    IN [ok |-> ~(nameRaises \/ ParameterTypeRaises(node) \/ docRaises),
        entry |-> [name |-> resolved, type |-> getParameterType(node), doc |-> doc]]

\* if (params.filter(val => val.name == paramName).length == 0) params.push
CollectAlways(params, entry) == Append(params, entry)
Collect(params, entry) ==
    IF \E i \in DOMAIN params : params[i].name = entry.name
    THEN params
    ELSE Append(params, entry)

\* catch { continue }: the result so far is kept and the loop goes on
CatchAbort(acc) == [acc EXCEPT !.raised = TRUE]
CatchContinue(acc) == acc

\* the loop over the children of the parameters element, from the i-th, on
\* acc = [raised, params]
RECURSIVE ParamsLoop(_, _, _)
ParamsLoop(nodes, i, acc) ==
    IF i > Len(nodes) \/ acc.raised
    THEN acc
    ELSE LET r == ExtractParam(nodes[i])
         IN ParamsLoop(nodes, i + 1,
                IF r.ok
                THEN [acc EXCEPT !.params = Collect(acc.params, r.entry)]
                ELSE CatchContinue(acc))

getParameters(nodes) == ParamsLoop(nodes, 1, [raised |-> FALSE, params |-> <<>>])

\* the children a parameters element may hold
ParamNames == { Absent, Present(<<"d">>), Present(<<"d", "o">>), Present(Ellipsis) }
ParamTypes == { NoTypeChild, TypeChild(<<"g", "i", "n", "t">>), UnnamedTypeChild }
ParamDocs == { Absent, Present(<<"a">>), Present(<<" ", "b", "\n">>) }
ParamNodes ==
    { ParamNode("parameter", n, ty, d) : n \in ParamNames, ty \in ParamTypes, d \in ParamDocs }
        \cup { ParamNode("instance-parameter", Absent, ty, d) : ty \in ParamTypes, d \in ParamDocs }

(***************************************************************************)
(* indent and buildFunctionString.                                         *)
(***************************************************************************)
JsNull == [t |-> "null", v |-> <<>>]
JsObject == [t |-> "object", v |-> <<>>]

\* `${value}` in a template literal
TemplateString(value) ==
    CASE value.t = "string" -> value.v
      [] value.t = "undefined" -> <<"u", "n", "d", "e", "f", "i", "n", "e", "d">>
      [] value.t = "null" -> <<"n", "u", "l", "l">>
      [] value.t = "function" -> <<"f", "u", "n", "c", "t", "i", "o", "n", " ">> \o value.v \o <<"(", ")", " ", "{", " ", "[", "n", "a", "t", "i", "v", "e", " ", "c", "o", "d", "e", "]", " ", "}">>
      [] OTHER -> <<"[", "o", "b", "j", "e", "c", "t", " ", "O", "b", "j", "e", "c", "t", "]">>

\* Array.prototype.join
RECURSIVE Join(_, _)
Join(items, sep) ==
    IF items = <<>> THEN <<>>
    ELSE IF Len(items) = 1 THEN items[1]
    ELSE items[1] \o sep \o Join(Tail(items), sep)

\* String.prototype.split with a one-character separator
RECURSIVE Split(_, _)
Split(s, c) ==
    IF ~Includes(s, c) THEN <<s>>
    ELSE <<Substring(s, 0, IndexOf(s, c))>> \o Split(Substring(s, IndexOf(s, c) + 1, Len(s)), c)

\* Array(n).join(sep): n empty slots, so n - 1 separators
ArrayJoin(n, sep) == Join([i \in 1..n |-> <<>>], sep)

SoftTab == <<" ", " ", " ", " ">>

indent(lines, depth) == [i \in DOMAIN lines |-> ArrayJoin(depth, SoftTab) \o lines[i]]

\* if (options.documentation)
DocumentationAlways(documentation) == TRUE
DocumentationOn(documentation) == documentation

\* args.map(arg => `${arg.name}: ${arg.type}`).join(", ")
ArgList(args) ==
    Join([i \in DOMAIN args |-> args[i].name \o <<":", " ">> \o TemplateString(args[i].type)],
         <<",", " ">>)

\* the record of the return type after lines 206-208
Voided(returntype) ==
    IF returntype.type = JsString(<<"n", "u", "l", "l">>)
    THEN [returntype EXCEPT !.type = JsString(<<"v", "o", "i", "d">>)]
    ELSE returntype

\* the text buildFunctionString returns; documentation is options.documentation,
\* extraTags is Absent or Present(tags)
buildFunctionString(name, args, returntype, depth, docstring, extraTags, documentation) ==
    LET rendered == RenderedName(name)
        arglist == ArgList(args)
        rt == Voided(returntype)
        paramDoc == [i \in DOMAIN args |->
                        <<" ", "*", " ", "@", "p", "a", "r", "a", "m", " ", "{">> \o TemplateString(args[i].type) \o <<"}", " ">> \o args[i].doc]
                    \o << <<" ", "*", " ", "@", "r", "e", "t", "u", "r", "n", "s", " ", "{">> \o TemplateString(rt.type) \o <<"}", " ">>
                            \o TemplateString(rt.doc) >>
        docLines == Split(docstring, "\n")
        content == << <<"/", "*", "*">> >>
                   \o [i \in DOMAIN docLines |-> <<" ", "*", " ">> \o docLines[i]]
                   \o paramDoc
                   \o << <<" ", "*", "/">> >>
                   \o << rendered \o <<"(">> \o arglist \o <<")", ":", " ">>
                            \o TemplateString(JsObject) \o <<";">> >>
        signature == rendered \o <<"(">> \o arglist \o <<")", ":", " ">> \o TemplateString(rt.type)
    IN IF DocumentationOn(documentation)
       THEN Join(indent(content, depth), <<"\n">>)
       ELSE IF extraTags.has
            THEN Join(extraTags.v, <<" ">>) \o <<" ">> \o signature
            ELSE signature

\* the calls of buildFunctionString
SampleArgs ==
    { <<>>,
      << [name |-> <<"_", "d">>, type |-> JsString(T_number), doc |-> <<"a">>] >>,
      << [name |-> <<"_", "d">>, type |-> JsString(T_number), doc |-> <<"a">>],
         [name |-> EllipsisOther, type |-> JsString(T_any), doc |-> <<"b">>] >> }
SampleReturnTypes ==
    { [doc |-> JsNull, type |-> JsString(<<"n", "u", "l", "l">>)],
      [doc |-> JsString(<<"r">>), type |-> JsString(T_number)] }
SampleDocstrings == { <<>>, <<"a">>, <<"a", "\n", "b">> }
SampleTags == { Absent, Present(<< <<"s", "t", "a", "t", "i", "c">> >>) }
FunctionCalls ==
    [name : { <<"d">>, <<"d", "o">> }, args : SampleArgs, returntype : SampleReturnTypes,
     depth : 0..MaxDepth, docstring : SampleDocstrings, extraTags : SampleTags,
     documentation : BOOLEAN]

\* the calls of indent
SampleLines == { <<>>, << <<"x">> >>, << <<"x">>, <<" ", "y">> >> }
IndentCalls == [lines : SampleLines, depth : 0..MaxDepth]

(***************************************************************************)
(* extractEnum.                                                            *)
(***************************************************************************)
LowerCase == <<"a", "b", "c", "d", "e", "f", "g", "h", "i", "j", "k", "l", "m", "n", "o", "p", "q", "r", "s", "t", "u", "v", "w", "x", "y", "z">>
UpperCase == <<"A", "B", "C", "D", "E", "F", "G", "H", "I", "J", "K", "L", "M", "N", "O", "P", "Q", "R", "S", "T", "U", "V", "W", "X", "Y", "Z">>

\* String.prototype.toUpperCase
ToUpperCase(s) ==
    [i \in DOMAIN s |->
        IF \E j \in DOMAIN LowerCase : LowerCase[j] = s[i]
        THEN UpperCase[CHOOSE j \in DOMAIN LowerCase : LowerCase[j] = s[i]]
        ELSE s[i]]

Backslash == <<"\\">>

\* the member name after lines 241-242
MemberName(name) ==
    IF Len(name) = 0 \/ Head(name) \in Digits THEN <<"_">> \o name ELSE name

\* member.attr("value").value().replace("\\", "\\\\")
enumValue(value) == Replace(value, Backslash, Backslash \o Backslash)

\* the line pushed for a member
MemberLine(member) ==
    SoftTab \o ToUpperCase(MemberName(member.name)) \o <<" ", "=", " ", "'">> \o enumValue(member.value) \o <<"'">>

\* enumName once the loop over the members has ended
LastEnumName(enumName, members) ==
    IF members = <<>> THEN enumName ELSE MemberName(members[Len(members)].name)

\* the record extractEnum returns for an enumeration named enumName
extractEnum(enumName, docstring, members) ==
    LET docLines == Split(docstring, "\n")
        enumContent == << <<"/", "*", "*">> >>
                       \o [i \in DOMAIN docLines |-> <<" ", "*", " ">> \o docLines[i]]
                       \o << <<" ", "*", "/">>, <<"e", "x", "p", "o", "r", "t", " ", "e", "n", "u", "m", " ">> \o enumName \o <<" ", "{">> >>
                       \o [i \in DOMAIN members |-> MemberLine(members[i])]
                       \o << <<"}">> >>
    IN [name |-> LastEnumName(enumName, members),
        parents |-> Null,
        contents |-> Join(enumContent, <<"\n">>)]

\* the values of the value attributes
SampleValues ==
    { <<"1">>, Backslash, Backslash \o Backslash, <<"a">> \o Backslash \o <<"b">> \o Backslash }
SampleMembers == [name : { <<"a">>, <<"1">>, <<>> }, value : SampleValues]

(***************************************************************************)
(* extractNamespace.  The children of the namespace element are given with *)
(* what the extractors made of them, and classesContent is the pair        *)
(* [text, imports] received from buildClasses.                             *)
(***************************************************************************)
FunctionElement(name, args, returntype, docstring) ==
    [kind |-> "function", name |-> name, args |-> args, returntype |-> returntype,
     docstring |-> docstring]
ConstantElement(name, value) == [kind |-> "constant", name |-> name, value |-> value]
ClassElement == [kind |-> "class"]

\* the line pushed for a constant; the result of constantValue.replace is
\* not assigned (line 438), so the value is emitted as read
ConstantLine(e) ==
    LET constantName == IF Head(e.name) \in Digits THEN <<"_">> \o e.name ELSE e.name
        constantValue == IF e.value.has THEN e.value.v ELSE T_null
    IN constantName \o <<" ", "=", " ">> \o constantValue \o <<";">>

\* what the loop over the children pushes on namespaceContent, from the i-th
RECURSIVE ContentLoop(_, _, _)
ContentLoop(elements, i, documentation) ==
    IF i > Len(elements) THEN <<>>
    ELSE LET e == elements[i]
             pushed ==
                 CASE e.kind = "function" ->
                        << [kind |-> "function",
                            text |-> buildFunctionString(e.name, e.args, e.returntype, 0,
                                                         e.docstring, Absent, documentation)] >>
                   [] e.kind = "constant" -> << [kind |-> "constant", text |-> ConstantLine(e)] >>
                   [] OTHER -> <<>>
         IN pushed \o ContentLoop(elements, i + 1, documentation)

\* the keys for (... in set) enumerates on a Set: its members are no
\* properties; union, assigned on Set.prototype, is enumerable unless the
\* runtime already defines it
ForIn(set, unionEnumerable) == IF unionEnumerable THEN << <<"u", "n", "i", "o", "n">> >> ELSE <<>>

ImportLine(imprt) == <<"l", "e", "t", " ">> \o imprt \o <<" ", "=", " ", "l", "o", "a", "d", "(", "'">> \o imprt \o <<"'", ",", " ", "'", "3", ".", "0", "'", ")", ";">>

\* namespaceContent.unshift(...importsContent)
PushLast(namespaceContent, importsContent) == namespaceContent \o importsContent
Unshift(namespaceContent, importsContent) == importsContent \o namespaceContent

\* the lines of namespaceContent at the return, each with the step that
\* pushed it, and the text returned
extractNamespace(elements, classesContent, unionEnumerable, documentation) ==
    LET classLines == Split(classesContent.text, "\n")
        keys == ForIn(classesContent.imports, unionEnumerable)
        namespaceContent ==
            ContentLoop(elements, 1, documentation)
                \o [i \in DOMAIN classLines |-> [kind |-> "class", text |-> classLines[i]]]
        importsContent == [i \in DOMAIN keys |-> [kind |-> "import", text |-> ImportLine(keys[i])]]
        items == Unshift(namespaceContent, importsContent)
    IN [items |-> items,
        text |-> Join([i \in DOMAIN items |-> items[i].text], <<"\n">>)]

SampleElements ==
    { FunctionElement(<<"d">>, <<>>, [doc |-> JsNull, type |-> JsString(T_null)], <<"a">>),
      FunctionElement(<<"d", "o">>, <<>>, [doc |-> JsString(<<"r">>), type |-> JsString(T_number)],
                      <<"a", "\n", "b">>),
      ClassElement,
      ConstantElement(<<"K">>, Absent),
      ConstantElement(<<"2", "K">>, Present(<<"1">>)),
      ConstantElement(<<"K">>, Present(Backslash)),
      ConstantElement(<<"L">>, Present(<<"a">> \o Backslash \o <<"b">> \o Backslash)) }
SampleClassesText == { <<>>, <<"c", "l", "a", "s", "s", " ", "A", "\n">>, <<"c", "l", "a", "s", "s", " ", "A", "\n", "e", "n", "u", "m", " ", "B">> }
SampleImports == SUBSET { <<"G", "t", "k">>, <<"F", "o", "o">> }

(***************************************************************************)
(* Specification of the calls of the pure functions.                       *)
(***************************************************************************)
\* native type names: the keys of the table, the same with a const
\* qualifier before or after, and names the table does not hold
UnknownTypeNames ==
    { <<>>, ConstQualifier, ConstQualifier \o ConstQualifier \o <<"g", "i", "n", "t">>,
      <<"G", "O", "b", "j", "e", "c", "t">>,
      <<"g", "p", "o", "i", "n", "t", "e", "r">>,
      <<"G", "t", "k", ".", "W", "i", "d", "g", "e", "t">>,
      <<"g", "i", "n", "t", "8">>,
      <<"t", "o", "S", "t", "r", "i", "n", "g">>,
      <<"c", "o", "n", "s", "t", "r", "u", "c", "t", "o", "r">> }

TypeNames ==
    DOMAIN TYPEMAP
        \cup { ConstQualifier \o key : key \in DOMAIN TYPEMAP }
        \cup { key \o <<" ">> \o ConstQualifier : key \in DOMAIN TYPEMAP }
        \cup UnknownTypeNames
        \cup { ConstQualifier \o n : n \in UnknownTypeNames }

\* candidate identifiers: every word of at most MaxWordLen characters over a
\* small alphabet, and some longer ones
WordAlphabet == { "d", "o", "1", "-" }
ShortWords == UNION { [1..n -> WordAlphabet] : n \in 0..MaxWordLen }
LongWords ==
    { <<"d", "e", "l", "e", "t", "e">>, <<"n", "e", "w">>, <<"t", "h", "i", "s">>, <<"c", "l", "a", "s", "s">>,
      <<"f", "o", "o">>, <<"u", "s", "e", "r", "_", "d", "a", "t", "a">>, <<".", ".", ".">>, <<"g", "e", "t", "-", "a">> }
Words == ShortWords \cup LongWords

InitFn ==
    /\ \/ call \in { [fn |-> "getTSType", arg |-> n] : n \in TypeNames }
       \/ call \in { [fn |-> "buildFunctionString", arg |-> w] : w \in Words }
       \/ \E n \in 0..MaxParams : \E nodes \in [1..n -> ParamNodes] :
              call = [fn |-> "getParameters", arg |-> nodes]
       \/ \E c \in FunctionCalls : call = [fn |-> "buildFunctionString:text", arg |-> c]
       \/ \E c \in IndentCalls : call = [fn |-> "indent", arg |-> c]
       \/ \E n \in 0..MaxMembers : \E members \in [1..n -> SampleMembers] :
              \E docstring \in { <<>>, <<"a", "\n", "b">> } :
                  call = [fn |-> "extractEnum",
                          arg |-> [name |-> <<"E">>, docstring |-> docstring, members |-> members]]
       \/ \E n \in 0..MaxElements : \E elements \in [1..n -> SampleElements] :
              \E text \in SampleClassesText, imprts \in SampleImports, b, d \in BOOLEAN :
                  call = [fn |-> "extractNamespace",
                          arg |-> [elements |-> elements,
                                   classesContent |-> [text |-> text, imports |-> imprts],
                                   unionEnumerable |-> b, documentation |-> d]]
    /\ ret = Pending
    /\ classes = <<>>
    /\ classesText = <<>>
    /\ imports = {}
    /\ parents = <<>>
    /\ localParents = {}
    /\ writtenClasses = {}
    /\ pc = "idle"
    /\ k = 1
    /\ scans = 0
    /\ progress = FALSE
    /\ GirIdle

CallGetTSType ==
    /\ call.fn = "getTSType"
    /\ ret = Pending
    /\ ret' = getTSType(call.arg)
    /\ UNCHANGED <<call, bcVars, girVars>>

CallBuildFunctionString ==
    /\ call.fn = "buildFunctionString"
    /\ ret = Pending
    /\ ret' = JsString(RenderedName(call.arg))
    /\ UNCHANGED <<call, bcVars, girVars>>

CallGetParameters ==
    /\ call.fn = "getParameters"
    /\ ret = Pending
    /\ ret' = [t |-> "params", v |-> getParameters(call.arg)]
    /\ UNCHANGED <<call, bcVars, girVars>>

\* the whole of buildFunctionString: the text returned and the record of the
\* return type, which lines 206-208 assign in place
CallBuildFunctionStringText ==
    /\ call.fn = "buildFunctionString:text"
    /\ ret = Pending
    /\ ret' = JsString(buildFunctionString(call.arg.name, call.arg.args, call.arg.returntype,
                                           call.arg.depth, call.arg.docstring,
                                           call.arg.extraTags, call.arg.documentation))
    /\ call' = [call EXCEPT !.arg.returntype = Voided(call.arg.returntype)]
    /\ UNCHANGED <<bcVars, girVars>>

CallIndent ==
    /\ call.fn = "indent"
    /\ ret = Pending
    /\ ret' = [t |-> "lines", v |-> indent(call.arg.lines, call.arg.depth)]
    /\ UNCHANGED <<call, bcVars, girVars>>

CallExtractEnum ==
    /\ call.fn = "extractEnum"
    /\ ret = Pending
    /\ ret' = [t |-> "GIRClass",
               v |-> extractEnum(call.arg.name, call.arg.docstring, call.arg.members)]
    /\ UNCHANGED <<call, bcVars, girVars>>

CallExtractNamespace ==
    /\ call.fn = "extractNamespace"
    /\ ret = Pending
    /\ ret' = [t |-> "namespace",
               v |-> extractNamespace(call.arg.elements, call.arg.classesContent,
                                      call.arg.unionEnumerable, call.arg.documentation)]
    /\ UNCHANGED <<call, bcVars, girVars>>

NextFn ==
    \/ CallGetTSType
    \/ CallBuildFunctionString
    \/ CallGetParameters
    \/ CallBuildFunctionStringText
    \/ CallIndent
    \/ CallExtractEnum
    \/ CallExtractNamespace

SpecFn == InitFn /\ [][NextFn]_vars

\* the name of the type without a leading const qualifier
StripLeadingConst(typename) ==
    IF OccursAt(typename, ConstQualifier, 1)
    THEN SubSeq(typename, Len(ConstQualifier) + 1, Len(typename))
    ELSE typename

\* C9: getTSType returns TYPEMAP[name] for every name of the table, a
\* leading const qualifier removed, and "any" for every other string; it
\* never returns undefined.
C9_TableOrAny ==
    (call.fn = "getTSType" /\ ret # Pending) =>
        LET name == StripLeadingConst(call.arg)
        IN ret = IF name \in DOMAIN TYPEMAP
                 THEN JsString(TYPEMAP[name])
                 ELSE JsString(T_any)

\* C10: buildFunctionString renders a name with a "_" prefix exactly when
\* the name is reserved or is no well-formed identifier, and renders a legal
\* identifier unchanged.
C10_PrefixIffReserved ==
    (call.fn = "buildFunctionString" /\ ret # Pending) =>
        LET unusable == ~IsIdentifierName(call.arg) \/ call.arg \in ReservedWords
        IN ret = JsString(IF unusable THEN <<"_">> \o call.arg ELSE call.arg)


(***************************************************************************)
(* getParameters: what a returned call holds.                              *)
(***************************************************************************)
ParamsReturned == call.fn = "getParameters" /\ ret # Pending

Indexes(seq) == [i \in 1..Len(seq) |-> i]

\* the entries of the nodes whose extraction completes, in document order
OkEntries(nodes) ==
    LET idx == SelectSeq(Indexes(nodes), LAMBDA i : ExtractParam(nodes[i]).ok)
    IN [j \in 1..Len(idx) |-> ExtractParam(nodes[idx[j]]).entry]

\* the entries whose name no earlier entry carries
FirstOccurrences(es) ==
    LET idx == SelectSeq(Indexes(es), LAMBDA i : \A j \in 1..(i - 1) : es[j].name # es[i].name)
    IN [j \in 1..Len(idx) |-> es[idx[j]]]

\* the nodes whose extraction completes
WithoutErrors(nodes) == SelectSeq(nodes, LAMBDA n : ExtractParam(n).ok)

\* C11: getParameters returns no entry for an instance-parameter node, so
\* no returned parameter has an empty name.
C11_NoEmptyName ==
    ParamsReturned => \A i \in DOMAIN ret.v.params : ret.v.params[i].name # <<>>

\* C12: a parameter node with a name attribute and a type child but no doc
\* child is included in the result.
C12_DoclessIncluded ==
    ParamsReturned =>
        \A i \in DOMAIN call.arg :
            LET node == call.arg[i]
            IN (/\ node.tag = "parameter"
                /\ node.name.has
                /\ node.type.child = "named"
                /\ ~node.doc.has)
               => \E j \in DOMAIN ret.v.params :
                      ret.v.params[j].name = ExtractParam(node).entry.name

\* C13: the names of the result are pairwise distinct and in order of first
\* occurrence: an entry whose resolved name is already present is dropped,
\* and the first one keeps its type and doc.
C13_FirstOccurrenceWins ==
    ParamsReturned =>
        /\ \A i, j \in DOMAIN ret.v.params :
               ret.v.params[i].name = ret.v.params[j].name => i = j
        /\ ret.v.params = FirstOccurrences(OkEntries(call.arg))

C13_Witness ==
    /\ ParamsReturned
    /\ Len(call.arg) = 2
    /\ ExtractParam(call.arg[1]).ok
    /\ ExtractParam(call.arg[2]).ok
    /\ ExtractParam(call.arg[1]).entry.name = ExtractParam(call.arg[2]).entry.name
    /\ ExtractParam(call.arg[1]).entry.doc # ExtractParam(call.arg[2]).entry.doc
    /\ ret.v.params = <<ExtractParam(call.arg[1]).entry>>

\* C14: an extraction error on one node removes only that node:
\* getParameters does not raise, the result is the one of the list without
\* the nodes in error, and every node that extracts has its name in it.
C14_ErrorIsolated ==
    ParamsReturned =>
        /\ ~ret.v.raised
        /\ ret.v.params = getParameters(WithoutErrors(call.arg)).params
        /\ \A i \in DOMAIN call.arg :
               ExtractParam(call.arg[i]).ok
                   => \E j \in DOMAIN ret.v.params :
                          ret.v.params[j].name = ExtractParam(call.arg[i]).entry.name

C14_Witness ==
    /\ ParamsReturned
    /\ Len(call.arg) = 2
    /\ call.arg[1].tag = "parameter"
    /\ \/ ~call.arg[1].name.has
       \/ call.arg[1].type.child = "unnamed"
    /\ ExtractParam(call.arg[2]).ok
    /\ ret.v.params = <<ExtractParam(call.arg[2]).entry>>


(***************************************************************************)
(* buildFunctionString and indent: what a returned call holds.             *)
(***************************************************************************)
TextReturned == call.fn = "buildFunctionString:text" /\ ret # Pending
IndentReturned == call.fn = "indent" /\ ret # Pending

EndsWith(s, suffix) ==
    /\ Len(suffix) <= Len(s)
    /\ SubSeq(s, Len(s) - Len(suffix) + 1, Len(s)) = suffix

Contains(s, pat) == \E i \in 1..Len(s) : OccursAt(s, pat, i)

Spaces(n) == [i \in 1..n |-> " "]

LastLine(text) == LET ls == Split(text, "\n") IN ls[Len(ls)]

\* the name of the return type once the call has returned: 'void' has
\* taken the place of the sentinel 'null'
ReturnTypeName == TemplateString(call.arg.returntype.type)

\* C15: in both rendering modes the signature line ends with the name of
\* the return type ('void' for the sentinel 'null'), with or without a
\* closing semicolon.
C15_SignatureEndsWithType ==
    TextReturned =>
        \/ EndsWith(LastLine(ret.v), ReturnTypeName)
        \/ EndsWith(LastLine(ret.v), ReturnTypeName \o <<";">>)

\* C16: indent(lines, depth) returns the same lines in the same order, each
\* prefixed by exactly 4 * depth spaces.
C16_IndentFourPerDepth ==
    IndentReturned =>
        /\ Len(ret.v) = Len(call.arg.lines)
        /\ \A i \in DOMAIN ret.v :
               ret.v[i] = Spaces(4 * call.arg.depth) \o call.arg.lines[i]

\* C17: with the documentation toggle off the text is a single line, without
\* comment block, of the form [modifiers ]name(args): type, whatever the
\* docstring.
C17_BareIsOneLine ==
    (TextReturned /\ ~call.arg.documentation) =>
        /\ ~Includes(ret.v, "\n")
        /\ ~Contains(ret.v, <<"/", "*", "*">>)
        /\ ret.v = (IF call.arg.extraTags.has
                    THEN Join(call.arg.extraTags.v, <<" ">>) \o <<" ">>
                    ELSE <<>>)
                   \o RenderedName(call.arg.name)
                   \o <<"(">> \o ArgList(call.arg.args) \o <<")", ":", " ">>
                   \o ReturnTypeName

C17_Witness ==
    /\ TextReturned
    /\ ~call.arg.documentation
    /\ Includes(call.arg.docstring, "\n")
    /\ call.arg.extraTags.has
    /\ Len(call.arg.args) = 2
    /\ ret.v = <<"s", "t", "a", "t", "i", "c", " ", "_", "d", "(", "_", "d", ":", " ", "n", "u", "m", "b", "e", "r", ",", " ", ".", ".", ".", "o", "t", "h", "e", "r", ":", " ", "a", "n", "y", ")", ":", " ", "v", "o", "i", "d">>


(***************************************************************************)
(* extractNamespace and extractEnum: what a returned call holds.           *)
(***************************************************************************)
NamespaceReturned == call.fn = "extractNamespace" /\ ret # Pending
EnumReturned == call.fn = "extractEnum" /\ ret # Pending

\* the segment a line belongs to
Segment(kind) ==
    CASE kind = "import" -> 1
      [] kind \in { "function", "constant" } -> 2
      [] OTHER -> 3

OfKinds(items, kinds) == SelectSeq(items, LAMBDA it : it.kind \in kinds)

CountOf(s, c) == Cardinality({ i \in DOMAIN s : s[i] = c })

C19_ImportPerNamespace ==
    NamespaceReturned =>
        LET emitted == OfKinds(ret.v.items, { "import" })
        IN /\ { emitted[i].text : i \in DOMAIN emitted }
                  = { ImportLine(n) : n \in call.arg.classesContent.imports }
           /\ Len(emitted) = Cardinality(call.arg.classesContent.imports)

\* C20: in the literal emitted for an enum member and for a constant every
\* backslash of the value is doubled: k backslashes give 2k.
C20_BackslashesDoubled ==
    /\ EnumReturned =>
           LET lines == Split(ret.v.contents, "\n")
               members == call.arg.members
           IN \A i \in DOMAIN members :
                  CountOf(lines[Len(lines) - 1 - Len(members) + i], "\\")
                      = 2 * CountOf(members[i].value, "\\")
    /\ NamespaceReturned =>
           LET declared == OfKinds(call.arg.elements, { "constant" })
               emitted == OfKinds(ret.v.items, { "constant" })
           IN \A i \in DOMAIN declared :
                  declared[i].value.has =>
                      CountOf(emitted[i].text, "\\") = 2 * CountOf(declared[i].value.v, "\\")


(***************************************************************************)
(* buildFunctionString: what a call leaves of its arguments.               *)
(***************************************************************************)
\* the step in which a call of buildFunctionString returns
TextReturns == call.fn = "buildFunctionString:text" /\ ret = Pending /\ ret' # Pending

\* the text of a second rendering of the record the caller holds now
RenderedAgain ==
    buildFunctionString(call.arg.name, call.arg.args, call.arg.returntype, call.arg.depth,
                        call.arg.docstring, call.arg.extraTags, call.arg.documentation)

\* C21: buildFunctionString has no side effect on its arguments: the
\* parameter list and the ReturnType record of the caller are unchanged by
\* the call (the sentinel 'null' is still held), and rendering the same
\* record again gives the text of the first rendering.
C21_ArgumentsUnchanged ==
    [][TextReturns =>
          /\ call'.arg.args = call.arg.args
          /\ call'.arg.returntype = call.arg.returntype
          /\ JsString(RenderedAgain') = ret']_vars


(***************************************************************************)
(* buildClasses: the blocks of the output and the written set.             *)
(***************************************************************************)
\* C22: in every state of buildClasses the contents of each class stands in
\* the output text at most once, and it stands there if and only if the
\* name of the class is in the written set; a class with several parents
\* is not appended once per parent.
C22_OncePerWrittenClass ==
    \A i \in DOMAIN classes :
        /\ Cardinality(BlocksOf(classes[i])) <= 1
        /\ BlocksOf(classes[i]) # {} <=> classes[i].name \in writtenClasses

\* a class with two parents has been written, in a second scan of a
\* registry of two classes
C22_Witness ==
    /\ scans >= 1
    /\ pc = "for"
    /\ Len(classes) = 2
    /\ \E i \in DOMAIN classes :
           /\ ~classes[i].parents.isNull
           /\ Len(classes[i].parents.items) = 2
           /\ classes[i].name \in writtenClasses
           /\ Cardinality(BlocksOf(classes[i])) = 1
           /\ k > i

====
